---- MODULE Spec2Model ----
(***************************************************************************)
(* Model of the MultiProcessorSiteDirector agent of DIRAC:                 *)
(*   getQueues  - derivation of the processor / whole-node tags and the    *)
(*                filtering of the queue catalog;                          *)
(*   submitJobs - one pilot submission cycle over the queue catalog.       *)
(***************************************************************************)
EXTENDS Integers, Sequences, FiniteSets, TLC

\* ------------------------------------------------------------------------
\* Bounds of the model
\* ------------------------------------------------------------------------
MaxProc == 3
MaxSlots == 2
MaxWaiting == 1
MaxCycleFactor == 2
MaxFailed == 1

\* A key that is absent from a Python dictionary (dict.get gives the default).
NoValue == "<absent>"

Queues == {"q1", "q2"}

\* ------------------------------------------------------------------------
\* Conversions used by getQueues and submitJobs
\* ------------------------------------------------------------------------
\* '%dProcessors' % processors
ProcessorsTag(n) == ToString(n) \o "Processors"

\* The decimal strings the configuration may carry for MaxProcessors.
NumStrings == {ToString(n) : n \in 0..MaxProc}

\* int( maxProcessors ) of a decimal string
IntOf(s) == CHOOSE n \in 0..MaxProc : ToString(n) = s

\* str.lower() on the flag spellings of the configuration
Lower(s) ==
  CASE s \in {"yes", "Yes", "YES"} -> "yes"
    [] s \in {"true", "True", "TRUE"} -> "true"
    [] s \in {"false", "False"} -> "false"
    [] s \in {"no", "No"} -> "no"
    [] s \in {"any", "Any", "ANY"} -> "any"
    [] OTHER -> s

\* if maxProcessors:  (None and the empty string are false)
Truthy(s) == s # NoValue /\ s # ""

\* dict.get( key, default ) on a field that may be absent
Get(v, default) == IF v = NoValue THEN default ELSE v

RECURSIVE ProcessorsTags(_, _)
\* ['%dProcessors' % p for p in range( 1, int( maxProcessors ) + 1 )], from lo
ProcessorsTags(lo, hi) ==
  IF lo > hi THEN <<>> ELSE <<ProcessorsTag(lo)>> \o ProcessorsTags(lo + 1, hi)

SeqToSet(s) == {s[i] : i \in 1..Len(s)}

\* The tags getQueues appends for one queue: the processor tags of lines
\* 32-39 followed by the whole-node tag of lines 41-45.
DerivedProcessorsTags(params, ceDef) ==
  LET maxProcessors == Get(params.MaxProcessors, ceDef.MaxProcessors)
  IN  IF Truthy(maxProcessors)
        THEN ProcessorsTags(1, IntOf(maxProcessors))
        ELSE <<>>

WholeNodeFlagEither(params, ceDef) ==
  \/ Lower(Get(params.WholeNode, "false")) \in {"yes", "true"}
  \/ Lower(Get(ceDef.WholeNode, "false")) \in {"yes", "true"}

WholeNodeFlagMut(params, ceDef) ==
  LET ceWholeNode == Get(ceDef.WholeNode, "false")
      wholeNode == Get(params.WholeNode, ceWholeNode)
  IN  wholeNode \in {"yes", "true"}

WholeNodeFlag(params, ceDef) ==
  LET ceWholeNode == Get(ceDef.WholeNode, "false")
      wholeNode == Get(params.WholeNode, ceWholeNode)
  IN  Lower(wholeNode) \in {"yes", "true"}

DerivedTags(params, ceDef) ==
  DerivedProcessorsTags(params, ceDef)
    \o (IF WholeNodeFlag(params, ceDef) THEN <<"WholeNode">> ELSE <<>>)

\* ParametersDict after lines 32-45: setdefault( 'Tags', [] ) happens only
\* when there is something to append.
TaggedParams(params, ceDef) ==
  LET added == DerivedTags(params, ceDef)
  IN  IF added = <<>>
        THEN params
        ELSE [params EXCEPT !.hasTags = TRUE, !.Tags = params.Tags \o added]

\* Lines 47-52: the queue is deleted from the catalog.
Dropped(params) ==
  IF ~params.hasTags
    THEN TRUE
    ELSE "2Processors" \notin SeqToSet(params.Tags)
           /\ "WholeNode" \notin SeqToSet(params.Tags)

\* ------------------------------------------------------------------------
\* State
\* ------------------------------------------------------------------------
VARIABLES
  \* catalog construction (getQueues)
  queueDict,        \* self.queueDict: queue name -> description
  resourceDict,     \* resourceDict[site][ce] of each candidate queue
  candidates,       \* the candidate descriptions getQueues started from
  gqPc,             \* position in getQueues
  gqTodo,           \* keys the dictionary iterator has not yielded yet
  gqChanged,        \* the dictionary changed size under the iterator
  gqResult,         \* what getQueues returned (or raised)
  derived,          \* per visited queue, the tags getQueues appended
  \* configuration and long-lived agent state
  failedQueueCycleFactor,
  maxPilotsToSubmit,
  pilotWaitingFlag,
  matcher,          \* what the matcher may answer to a per-queue probe
  failedQueues,     \* self.failedQueues
  queueSlots,       \* self.queueSlots[queue]['AvailableSlots']
  \* one submitJobs call
  pc, retval, cyclesLeft,
  queues,           \* the shuffled queues still to visit
  anySite, jobSites, testSites, siteMaskList,
  taskQueueDict,    \* result of the per-queue probe
  tagsLeft,         \* keys of tqIDListByProcessors still to visit
  tag, processors, tagTQJobs, tagWaitingPilots, totalSlots,
  pilotsToSubmit, queueSubmittedPilots, matchedQueues,
  tqID,             \* the local tqID (bound by the loop of line 97)
  \* observation of the calls a cycle makes
  event,            \* what the last step did
  calls,            \* queues for which each kind of call was made this cycle
  probe,            \* the answer of this cycle's global probe
  step,             \* the queue the last step worked on, and its history
  track,            \* per queue, what happened since it last passed the gate
  bucket,           \* baseline and running totals of the current tag bucket
  drawn,            \* slots and pilots of the current queue over its buckets
  batch,            \* effects of the last submission-loop iteration
  \* one export_getCurrentPilotCounters call of the administrator service
  counters,         \* result['Value']: the overall counters by status
  countersDay,      \* resultDay['Value']: the counters of the last day
  cntPc,            \* position in export_getCurrentPilotCounters
  cntLeft,          \* entries of result['Value'] still to visit
  resultDict,       \* the dictionary being built
  cntResult         \* what the call returned

gqVars == <<queueDict, resourceDict, candidates, gqPc, gqTodo, gqChanged,
            gqResult, derived>>
cfgVars == <<failedQueueCycleFactor, maxPilotsToSubmit, pilotWaitingFlag,
             matcher>>
agentVars == <<failedQueues, queueSlots>>
cycleVars == <<pc, retval, cyclesLeft, queues, anySite, jobSites, testSites,
               siteMaskList, taskQueueDict, tagsLeft, tag, processors,
               tagTQJobs, tagWaitingPilots, totalSlots, pilotsToSubmit,
               queueSubmittedPilots, matchedQueues,
               tqID>>
obsVars == <<event, calls, probe, step, track, bucket, drawn, batch>>
cntVars == <<counters, countersDay, cntPc, cntLeft, resultDict, cntResult>>
vars == <<gqVars, cfgVars, agentVars, cycleVars, obsVars, cntVars>>

Sites == {"s1", "s2"}

NoCalls == [gate |-> {}, probe |-> {}, test |-> {}, proxy |-> {},
            bundle |-> {}, submit |-> {}, failed |-> {}]
NoProbe == [ok |-> FALSE, value |-> {}]
NoStep == [queue |-> NoValue, failed |-> 0, failedBefore |-> FALSE,
           matched |-> 0,
           after |-> <<>>, fails |-> 0, skips |-> 0]
NoTrack == [fails |-> 0, skips |-> 0]
NoBucket == [slots |-> 0, prior |-> 0, chunks |-> 0, pilots |-> 0]
NoBatch == [queue |-> NoValue, tag |-> NoValue, processors |-> 0,
            chunk |-> 0, pilots |-> {}, refs |-> {}, status |-> {},
            slots |-> 0, jobs |-> 0, waiting |-> 0, prior |-> 0,
            chunks |-> 0, submitted |-> 0, budget |-> 0, tqs |-> <<>>,
            groups |-> {}, cached |-> 0, first |-> 0, total |-> 0,
            built |-> FALSE, released |-> FALSE,
            refTried |-> {}, statusTried |-> {}, probed |-> {}]
NoDrawn == [first |-> 0, pilots |-> 0]

\* No call of the administrator service is under way.
NoCounters ==
  /\ counters = <<>> /\ countersDay = <<>>
  /\ cntPc = "idle" /\ cntLeft = <<>>
  /\ resultDict = <<>> /\ cntResult = "none"

\* The agent before its first cycle: no failure recorded, no slot cached.
InitAgent ==
  /\ queueSlots = [q \in Queues |-> 0]
  /\ pc = "idle" /\ retval = "none"
  /\ queues = <<>>
  /\ anySite = FALSE /\ jobSites = {} /\ testSites = {} /\ siteMaskList = {}
  /\ taskQueueDict = {} /\ tagsLeft = {}
  /\ tag = NoValue /\ processors = 1
  /\ tagTQJobs = 0 /\ tagWaitingPilots = 0 /\ totalSlots = 0
  /\ pilotsToSubmit = 0 /\ queueSubmittedPilots = 0
  /\ matchedQueues = 0
  /\ tqID = 0
  /\ event = "init" /\ calls = NoCalls /\ bucket = NoBucket /\ batch = NoBatch
  /\ probe = NoProbe /\ step = NoStep /\ drawn = NoDrawn
  /\ track = [q \in Queues |-> NoTrack]

\* ------------------------------------------------------------------------
\* getQueues
\* ------------------------------------------------------------------------
WholeNodeValues == {"yes", "True", "TRUE", "false", "No"}
PreTags == {<<>>, <<"GPU">>, <<"GPU", "WholeNode">>}

Candidate(site, ceType, cpuTime, maxProcessors, wholeNode, hasTags, tags) ==
  [Site |-> site, CEType |-> ceType, CPUTime |-> cpuTime,
   MaxProcessors |-> maxProcessors, WholeNode |-> wholeNode,
   hasTags |-> hasTags, Tags |-> tags]

\* Candidate descriptions of "q1": every combination of the operator values.
AnyCandidates ==
  {Candidate("s1", "CREAM", "3600", mp, wn, ht, IF ht THEN tg ELSE <<>>) :
     mp \in {NoValue} \cup NumStrings,
     wn \in {NoValue} \cup WholeNodeValues,
     ht \in BOOLEAN, tg \in PreTags}

AnyCeDefs ==
  [MaxProcessors : {NoValue} \cup NumStrings,
   WholeNode : {NoValue} \cup WholeNodeValues]

\* The second candidate queue: a plain two-processor queue.
SecondCandidate == Candidate("s2", "HTCondorCE", "3600", NoValue, NoValue, FALSE, <<>>)
SecondCeDef == [MaxProcessors |-> "2", WholeNode |-> NoValue]

InitGQ ==
  /\ \E c \in AnyCandidates, d \in AnyCeDefs :
       /\ candidates = [q \in Queues |-> IF q = "q1" THEN c ELSE SecondCandidate]
       /\ resourceDict = [q \in Queues |-> IF q = "q1" THEN d ELSE SecondCeDef]
  /\ queueDict = candidates
  /\ gqPc = "start" /\ gqTodo = {} /\ gqChanged = FALSE
  /\ gqResult = "none"
  /\ derived = [q \in Queues |-> [visited |-> FALSE, tags |-> <<>>]]
  /\ failedQueueCycleFactor = 1
  /\ maxPilotsToSubmit = 1
  /\ pilotWaitingFlag = TRUE
  /\ matcher = {{}}
  /\ failedQueues = [q \in Queues |-> 0]
  /\ cyclesLeft = 0
  /\ InitAgent
  /\ NoCounters

\* Lines 23-25: the candidate enumeration of the base class.
GetQueuesBegin ==
  /\ gqPc = "start"
  /\ \E ok \in BOOLEAN :
       IF ok
         THEN /\ gqPc' = "loop"
              /\ gqTodo' = DOMAIN queueDict
              /\ gqResult' = gqResult
         ELSE /\ gqPc' = "done"
              /\ gqResult' = "ERROR"
              /\ gqTodo' = gqTodo
  /\ UNCHANGED <<queueDict, resourceDict, candidates, gqChanged, derived>>
  /\ UNCHANGED <<cfgVars, agentVars, cycleVars, obsVars, cntVars>>

\* Lines 27-52: the body of the loop for one queue the iterator yields.
GetQueuesQueue ==
  /\ gqPc = "loop"
  /\ ~gqChanged
  /\ \E queueName \in gqTodo :
       LET params == TaggedParams(queueDict[queueName], resourceDict[queueName])
       IN  /\ derived' = [derived EXCEPT ![queueName] =
                            [visited |-> TRUE,
                             tags |-> DerivedTags(queueDict[queueName],
                                                  resourceDict[queueName])]]
           /\ gqTodo' = gqTodo \ {queueName}
           /\ IF Dropped(params)
                THEN /\ queueDict' = [q \in DOMAIN queueDict \ {queueName} |-> queueDict[q]]
                     /\ gqChanged' = TRUE
                ELSE /\ queueDict' = [queueDict EXCEPT ![queueName] = params]
                     /\ gqChanged' = gqChanged
  /\ UNCHANGED <<resourceDict, candidates, gqPc, gqResult>>
  /\ UNCHANGED <<cfgVars, agentVars, cycleVars, obsVars, cntVars>>

\* Line 27 when the iterator is advanced: it raises once the dictionary
\* changed size under it (line 48 or 52), else the loop ends at line 54.
GetQueuesEnd ==
  /\ gqPc = "loop"
  /\ gqChanged \/ gqTodo = {}
  /\ gqPc' = "done"
  /\ gqResult' = IF gqChanged THEN "RuntimeError" ELSE "OK"
  /\ UNCHANGED <<queueDict, resourceDict, candidates, gqTodo, gqChanged, derived>>
  /\ UNCHANGED <<cfgVars, agentVars, cycleVars, obsVars, cntVars>>

NextGQ == GetQueuesBegin \/ GetQueuesQueue \/ GetQueuesEnd

SpecGQ == InitGQ /\ [][NextGQ]_vars

\* ------------------------------------------------------------------------
\* submitJobs: the collaborators' data
\* ------------------------------------------------------------------------
\* The task queues the matcher may report, by identifier; has<Field> tells
\* whether the matcher's description carries the field.
TaskQueues ==
  <<[Jobs |-> 2, Priority |-> 1, hasTags |-> TRUE, Tags |-> {"2Processors"},
     hasSites |-> FALSE, Sites |-> {}, hasJobTypes |-> FALSE],
    [Jobs |-> 1, Priority |-> 3, hasTags |-> TRUE,
     Tags |-> {"2Processors", "WholeNode"},
     hasSites |-> TRUE, Sites |-> {"s1"}, hasJobTypes |-> FALSE],
    [Jobs |-> 1, Priority |-> 0, hasTags |-> TRUE, Tags |-> {"WholeNode"},
     hasSites |-> TRUE, Sites |-> {"s2"}, hasJobTypes |-> TRUE],
    [Jobs |-> 1, Priority |-> 1, hasTags |-> FALSE, Tags |-> {},
     hasSites |-> TRUE, Sites |-> {"ANY"}, hasJobTypes |-> FALSE]>>

TQIds == DOMAIN TaskQueues

\* What the matcher answers to the global probe and to a per-queue probe,
\* and the site masks the mask provider reports.
GlobalResults == {{}, {1}, {2}, {3}}
ProbeResults == {{}, {1, 2}, {3, 4}}
\* A probe that matches one task queue carrying two of the queue's tags.
OverlapResults == {{}, {2}}
SiteMasks == {{"s1"}, {"s1", "s2"}}

Min(a, b) == IF a < b THEN a ELSE b
Max(a, b) == IF a > b THEN a ELSE b

RECURSIVE SumOver(_, _)
\* sum of f[x] over the finite set S
SumOver(f, S) ==
  IF S = {} THEN 0
  ELSE LET x == CHOOSE y \in S : TRUE IN f[x] + SumOver(f, S \ {x})

\* random.shuffle( queues ): any order of the catalog's keys
Shuffles(S) ==
  {o \in [1..Cardinality(S) -> S] : \A i, j \in DOMAIN o : o[i] = o[j] => i = j}

\* Lines 93-110: the sites derived from the global probe.
NamedSites(tq) ==
  IF ~TaskQueues[tq].hasSites THEN {}
  ELSE {site \in TaskQueues[tq].Sites : Lower(site) # "any"}

JobSitesOf(value) == UNION {NamedSites(tq) : tq \in value}

AnySiteOf(value) ==
  \E tq \in value :
    \/ ~TaskQueues[tq].hasSites
    \/ \E site \in TaskQueues[tq].Sites : Lower(site) = "any"

TestSitesOf(value) ==
  UNION {NamedSites(tq) : tq \in {t \in value : TaskQueues[t].hasJobTypes}}

\* Line 173: the queue is left out when its site is not in the mask and has
\* no test demand.
SkipNotInMaskMut(siteMask, siteName, sites) == FALSE
SkipNotInMask(siteMask, siteName, sites) == ~siteMask /\ siteName \notin sites

\* re.match( r'^[0-9]+Processors$', tag )
IsProcessorsTag(t) == \E n \in 0..(MaxProc + 1) : t = ProcessorsTag(n)

\* Lines 162-168: the processor tags of a queue (as a set).
ProcessorTagsOf(queueTags) ==
  {t \in SeqToSet(queueTags) : IsProcessorsTag(t)}
    \cup (IF "WholeNode" \in SeqToSet(queueTags) THEN {"WholeNode"} ELSE {})

\* Lines 245-251: the processor count passed to the endpoint for a tag.
ProcessorsOfMut(t) ==
  IF IsProcessorsTag(t)
    THEN CHOOSE n \in 0..(MaxProc + 1) : t = ProcessorsTag(n)
    ELSE 1

ProcessorsOf(t) ==
  IF t = "WholeNode" THEN -1
  ELSE IF IsProcessorsTag(t)
    THEN CHOOSE n \in 0..(MaxProc + 1) : t = ProcessorsTag(n)
    ELSE 1

\* Lines 223-233: the task queues of a tag bucket, in the dictionary's order.
TagTqIDList(value, processorTags, t) ==
  SelectSeq([i \in TQIds |-> i],
            LAMBDA tq : /\ tq \in value
                        /\ TaskQueues[tq].hasTags
                        /\ t \in TaskQueues[tq].Tags
                        /\ t \in processorTags)

\* Lines 232-233: totalTQJobsByProcessors[tag]
TotalTQJobsByProcessors(value, processorTags, t) ==
  SumOver([tq \in TQIds |-> TaskQueues[tq].Jobs],
          SeqToSet(TagTqIDList(value, processorTags, t)))

\* The keys of tqIDListByProcessors.
BucketTags(value, processorTags) ==
  {t \in processorTags : TagTqIDList(value, processorTags, t) # <<>>}

\* Line 148-149: the backoff gate.
BackoffGateMut(failed, factor) == failed % factor = 0
BackoffGate(failed, factor) == failed % factor # 0

\* Line 89: the global probe matched no task queue.
NoDemandMut(value) == FALSE
NoDemand(value) == value = {}

\* Line 151: the gate counts the cycle it skips.
CountSkipMut(failed) == failed
CountSkip(failed) == failed + 1

\* Lines 213-218: matchedQueues after the per-queue probe returned value.
MatchedMut(matched, value) == matched + 1
Matched(matched, value) == IF value = {} THEN matched ELSE matched + 1

\* Line 322: a failed submit call is counted.
CountFailureMut(failed) == failed + 2
CountFailure(failed) == failed + 1

\* Line 321: a failed submit call ends the loop of the bucket.
BudgetAfterFailureMut(budget) == budget
BudgetAfterFailure(budget) == 0

\* Lines 293-298: the budget of a tag bucket.
BudgetMut(slots, jobs, waiting, ceiling, submitted) ==
  Max(0, Min(slots, jobs - waiting))
Budget(slots, jobs, waiting, ceiling, submitted) ==
  Min(ceiling - submitted, Max(0, Min(slots, jobs - waiting)))

\* getQueueSlots( queue, False ): the cached slot count, refreshed from the
\* endpoint (which reports avail) when the cache holds none.
GetQueueSlots(cached, avail) == IF cached = 0 THEN avail ELSE cached

\* ------------------------------------------------------------------------
\* submitJobs: the cycle
\* ------------------------------------------------------------------------
ResetBucketLocals ==
  /\ tag' = NoValue /\ processors' = 1
  /\ tagTQJobs' = 0 /\ tagWaitingPilots' = 0 /\ totalSlots' = 0
  /\ pilotsToSubmit' = 0
  /\ bucket' = NoBucket

ResetQueueLocals ==
  /\ taskQueueDict' = {} /\ tagsLeft' = {} /\ queueSubmittedPilots' = 0
  /\ drawn' = NoDrawn
  /\ ResetBucketLocals

\* return result: the locals of the call are gone.
Returned(result, ev) ==
  /\ pc' = "idle" /\ retval' = result /\ event' = ev
  /\ queues' = <<>>
  /\ anySite' = FALSE /\ jobSites' = {} /\ testSites' = {}
  /\ siteMaskList' = {}
  /\ matchedQueues' = 0
  /\ tqID' = 0
  /\ ResetQueueLocals

ReturnMut(result, ev) == Returned("OK", ev)
Return(result, ev) == Returned(result, ev)

\* The step worked on the head of the queues.
StepOn(queue) ==
  [queue |-> queue, failed |-> failedQueues[queue],
   failedBefore |-> queue \in calls.failed, after |-> Tail(queues),
   matched |-> matchedQueues,
   fails |-> track[queue].fails, skips |-> track[queue].skips]

\* continue of the loop over the queues (line 145)
ContinueQueue(ev) ==
  /\ pc' = "queue" /\ event' = ev
  /\ queues' = Tail(queues)
  /\ ResetQueueLocals
  /\ UNCHANGED <<retval, anySite, jobSites, testSites, siteMaskList>>

\* continue of the loop over the tag buckets (line 241); when no bucket is
\* left the loop over the queues goes on.
ContinueTag(rest, submitted, got, ev) ==
  IF rest = {}
    THEN ContinueQueue(ev)
    ELSE /\ pc' = "tag" /\ event' = ev
         /\ tagsLeft' = rest
         /\ queueSubmittedPilots' = submitted
         /\ drawn' = [drawn EXCEPT !.pilots = @ + got]
         /\ ResetBucketLocals
         /\ UNCHANGED <<retval, queues, anySite, jobSites, testSites,
                        siteMaskList, taskQueueDict>>

\* Lines 60-111: the global probe and the sites derived from it.
StartCycle ==
  /\ pc = "idle" /\ gqResult = "OK"
  /\ cyclesLeft > 0
  /\ cyclesLeft' = cyclesLeft - 1
  /\ calls' = NoCalls /\ batch' = NoBatch /\ step' = NoStep
  /\ \E outcome \in {"platformsError", "globalProbeError", "OK"} :
     \E value \in IF outcome = "OK" THEN GlobalResults ELSE {{}} :
       /\ probe' = [ok |-> outcome = "OK", value |-> value]
       /\ IF outcome # "OK" THEN Return("ERROR", outcome)
          ELSE IF NoDemand(value) THEN Return("OK", "noDemand")
          ELSE /\ pc' = "mask" /\ retval' = "none" /\ event' = "globalProbe"
               /\ jobSites' = JobSitesOf(value)
               /\ anySite' = AnySiteOf(value)
               /\ testSites' = TestSitesOf(value)
               /\ \/ \E last \in value : tqID' = last
                  \/ value = {} /\ tqID' = tqID
               /\ queues' = <<>> /\ siteMaskList' = {}
               /\ matchedQueues' = 0
               /\ ResetQueueLocals
  /\ UNCHANGED <<cntVars, gqVars, cfgVars, agentVars, track>>

\* Lines 127-144: the site mask and the shuffle of the queues.
GetSiteMask ==
  /\ pc = "mask"
  /\ \E ok \in BOOLEAN :
     \E mask \in IF ok THEN SiteMasks ELSE {{}},
        order \in IF ok THEN Shuffles(DOMAIN queueDict) ELSE {<<>>} :
       IF ~ok THEN Return("ERROR", "siteMaskError")
       ELSE /\ pc' = "queue" /\ event' = "siteMask"
            /\ siteMaskList' = mask
            /\ queues' = order
            /\ matchedQueues' = 0
            /\ ResetQueueLocals
            /\ UNCHANGED <<retval, anySite, jobSites, testSites, tqID>>
  /\ batch' = NoBatch /\ step' = NoStep
  /\ UNCHANGED <<cntVars, gqVars, cfgVars, agentVars, cyclesLeft, calls, probe, track>>

\* Lines 192-193: the probe asks for JobType 'Test'.
TestOnlyMut(siteMask) == FALSE

TestOnly(siteMask) == ~siteMask

\* Lines 145-240: one queue up to the partition of its task queues by tag.
NextQueue ==
  /\ pc = "queue" /\ queues # <<>>
  /\ batch' = NoBatch
  /\ step' = StepOn(Head(queues))
  /\ LET gated == BackoffGate(failedQueues[Head(queues)], failedQueueCycleFactor)
     IN  track' = [track EXCEPT ![Head(queues)] =
                     IF gated THEN [@ EXCEPT !.skips = @ + 1] ELSE NoTrack]
  /\ LET queue == Head(queues)
         siteName == queueDict[queue].Site
         siteMask == siteName \in siteMaskList
         processorTags == ProcessorTagsOf(queueDict[queue].Tags)
     IN
     IF BackoffGate(failedQueues[queue], failedQueueCycleFactor)
       THEN /\ failedQueues' = [failedQueues EXCEPT ![queue] = CountSkip(@)]
            /\ calls' = [calls EXCEPT !.gate = @ \cup {queue}]
            /\ ContinueQueue("gateSkip")
            /\ UNCHANGED <<matchedQueues, tqID>>
     ELSE IF ~anySite /\ siteName \notin jobSites
       THEN /\ ContinueQueue("noWorkload")
            /\ UNCHANGED <<failedQueues, calls, matchedQueues, tqID>>
     ELSE IF SkipNotInMask(siteMask, siteName, testSites)
       THEN /\ ContinueQueue("notInMask")
            /\ UNCHANGED <<failedQueues, calls, matchedQueues, tqID>>
     ELSE IF queueDict[queue].CPUTime = NoValue
       THEN /\ ContinueQueue("noCPUTime")
            /\ UNCHANGED <<failedQueues, calls, matchedQueues, tqID>>
     ELSE \E outcome \in {"platformError", "probeError", "OK"} :
          \E value \in IF outcome = "OK" THEN matcher ELSE {{}} :
       IF outcome = "platformError"
         THEN /\ ContinueQueue("platformError")
              /\ UNCHANGED <<failedQueues, calls, matchedQueues, tqID>>
       ELSE
         /\ calls' = [calls EXCEPT !.probe = @ \cup {queue},
                                   !.test = IF TestOnly(siteMask)
                                              THEN @ \cup {queue} ELSE @]
         /\ UNCHANGED failedQueues
         /\ IF outcome = "probeError" THEN Return("ERROR", "probeError")
            ELSE IF value = {}
              THEN /\ ContinueQueue("probeEmpty")
                   /\ matchedQueues' = Matched(matchedQueues, value)
                   /\ UNCHANGED tqID
            ELSE /\ matchedQueues' = Matched(matchedQueues, value)
                 /\ UNCHANGED tqID
                 /\ IF BucketTags(value, processorTags) = {}
                      THEN ContinueQueue("noBucket")
                      ELSE /\ pc' = "tag" /\ event' = "matched"
                           /\ taskQueueDict' = value
                           /\ tagsLeft' = BucketTags(value, processorTags)
                           /\ queueSubmittedPilots' = 0
                           /\ drawn' = NoDrawn
                           /\ ResetBucketLocals
                           /\ UNCHANGED <<retval, queues, anySite, jobSites,
                                          testSites, siteMaskList>>
  /\ UNCHANGED <<cntVars, gqVars, cfgVars, queueSlots, cyclesLeft, probe>>

\* Lines 373-374: the end of the loop over the queues.
FinishCycle ==
  /\ pc = "queue" /\ queues = <<>>
  /\ Return("OK", "finished")
  /\ batch' = NoBatch /\ step' = NoStep
  /\ UNCHANGED <<cntVars, gqVars, cfgVars, agentVars, cyclesLeft, calls, probe, track>>

\* Lines 241-298: one tag bucket up to its budget.
NextTag ==
  /\ pc = "tag"
  /\ batch' = NoBatch
  /\ step' = StepOn(Head(queues))
  /\ LET queue == Head(queues)
         processorTags == ProcessorTagsOf(queueDict[queue].Tags)
     IN
     \E t \in tagsLeft, countOK \in BOOLEAN, proxyOK \in BOOLEAN :
     \E count \in IF pilotWaitingFlag /\ countOK THEN 0..MaxWaiting ELSE {0},
        avail \in IF proxyOK /\ queueSlots[queue] = 0 THEN 0..MaxSlots ELSE {0} :
       LET rest == tagsLeft \ {t}
           jobs == TotalTQJobsByProcessors(taskQueueDict, processorTags, t)
           waiting == IF pilotWaitingFlag /\ countOK THEN count ELSE 0
           slots == GetQueueSlots(queueSlots[queue], avail)
           budget == Budget(slots, jobs, waiting, maxPilotsToSubmit,
                            queueSubmittedPilots)
       IN
       IF waiting >= jobs
         THEN /\ ContinueTag(rest, queueSubmittedPilots, 0, "enoughWaiting")
              /\ UNCHANGED <<queueSlots, calls, matchedQueues, tqID>>
       ELSE
         /\ calls' = [calls EXCEPT !.proxy = @ \cup {queue}]
         /\ IF ~proxyOK
              THEN /\ Return("ERROR", "proxyError")
                   /\ UNCHANGED queueSlots
            ELSE
              /\ queueSlots' = [queueSlots EXCEPT ![queue] = slots]
              /\ UNCHANGED <<matchedQueues, tqID>>
              /\ IF slots = 0
                   THEN ContinueTag(rest, queueSubmittedPilots, 0, "noSlots")
                 ELSE IF budget <= 0
                   THEN ContinueTag(rest, queueSubmittedPilots, 0, "noBudget")
                 ELSE /\ pc' = "submit" /\ event' = "budget"
                      /\ tagsLeft' = rest
                      /\ tag' = t
                      /\ processors' = ProcessorsOf(t)
                      /\ tagTQJobs' = jobs
                      /\ tagWaitingPilots' = waiting
                      /\ totalSlots' = slots
                      /\ pilotsToSubmit' = budget
                      /\ bucket' = [slots |-> slots, prior |-> queueSubmittedPilots,
                                    chunks |-> 0, pilots |-> 0]
                      /\ drawn' = IF drawn.first = 0
                                    THEN [drawn EXCEPT !.first = slots]
                                    ELSE drawn
                      /\ UNCHANGED <<retval, queues, anySite, jobSites, testSites,
                                     siteMaskList, taskQueueDict,
                                     queueSubmittedPilots>>
  /\ UNCHANGED <<cntVars, gqVars, cfgVars, failedQueues, cyclesLeft, probe, track>>

\* Lines 336-340: the cumulative priority of the first i task queues.
RECURSIVE SumPriority(_, _)
SumPriority(tagTqIDList, i) ==
  IF i = 0 THEN 0
  ELSE SumPriority(tagTqIDList, i - 1) + TaskQueues[tagTqIDList[i]].Priority

\* Lines 345-348: the first task queue whose cumulative priority exceeds
\* rndm; the local tqID keeps its value when there is none.
SelectTQMut(tagTqIDList, rndm, previous) ==
  LET hits == {i \in DOMAIN tagTqIDList : rndm + 1 < SumPriority(tagTqIDList, i)}
  IN  IF hits = {} THEN previous
      ELSE tagTqIDList[CHOOSE i \in hits : \A j \in hits : i <= j]

SelectTQ(tagTqIDList, rndm, previous) ==
  LET hits == {i \in DOMAIN tagTqIDList : rndm < SumPriority(tagTqIDList, i)}
  IN  IF hits = {} THEN previous
      ELSE tagTqIDList[CHOOSE i \in hits : \A j \in hits : i <= j]

RECURSIVE AssignPilots(_, _, _, _)
\* Lines 343-351: tqID after each pilot of the list, draws[i] being the
\* random value of pilot i.
AssignPilots(tagTqIDList, draws, previous, i) ==
  IF i > Len(draws) THEN <<>>
  ELSE LET chosen == SelectTQ(tagTqIDList, draws[i], previous)
       IN  <<chosen>> \o AssignPilots(tagTqIDList, draws, chosen, i + 1)

\* The values random.random() * sumPriority may take, up to the integer
\* boundaries the comparison of line 346 distinguishes.
DrawRange(sumPriority) == 0..Max(sumPriority - 1, 0)

\* getExecutable of the base class (line 308): the bundle is sized to at most
\* the pilots asked for.
SubmissionChunks(requested) == 0..requested

\* submitJob of the endpoint (line 313): the number of pilot references it
\* returns for a chunk.
PilotLists(chunk) == 0..chunk

\* Lines 317-318: the executable is unlinked after the submit call.
UnlinksMut(ceType) == TRUE
Unlinks(ceType) == ceType # "HTCondorCE"

\* Line 325: pilotsToSubmit = pilotsToSubmit - pilotSubmissionChunk
BudgetAfterChunkMut(budget, chunk) == 0
BudgetAfterChunk(budget, chunk) == budget - chunk

\* Line 330: self.queueSlots[queue]['AvailableSlots'] -= len( pilotList )
SlotsAfterMut(count, pilots) == count
SlotsAfter(count, pilots) == count - pilots

\* Lines 342-351: tqDict as the pairs (pilot, task queue of its group);
\* assigned[p] is the tqID left by the inner loop for pilot p.
GroupsMut(assigned) ==
  {<<p, tq>> : p \in DOMAIN assigned, tq \in SeqToSet(assigned)}
Groups(assigned) == {<<p, assigned[p]>> : p \in DOMAIN assigned}

\* Lines 353-364: addPilotTQReference is called for every key of tqDict; a
\* failed call is logged and the loop goes on with the next key.
RefAttemptsMut(groups, okRefs) ==
  {g[2] : g \in {h \in groups :
                   \A k \in groups : k[2] < h[2] => k[2] \in okRefs}}
RefAttempts(groups, okRefs) == {g[2] : g \in groups}

\* Lines 365-371: setPilotStatus is called for every pilot of a group whose
\* reference was recorded; a failed call is logged and the loop goes on.
StatusAttemptsMut(groups, recorded) == {g[1] : g \in groups}

StatusAttempts(groups, recorded) == {g[1] : g \in {h \in groups : h[2] \in recorded}}

\* Line 353: 'for tqID, pilotList in tqDict.items()' rebinds the local tqID;
\* after the loop it holds the last key of the dictionary, the largest of
\* the small integer keys.
LastKey(S) == CHOOSE x \in S : \A y \in S : y <= x

\* The calls of a batch that succeed: all of them, or all but one.
AllBut(S) == {S} \cup {S \ {x} : x \in S}

\* Lines 300-371: one iteration of the submission loop of a tag bucket.
SubmitChunk ==
  /\ pc = "submit"
  /\ step' = StepOn(Head(queues))
  /\ LET queue == Head(queues)
         processorTags == ProcessorTagsOf(queueDict[queue].Tags)
         tagTqIDList == TagTqIDList(taskQueueDict, processorTags, tag)
         sumPriority == SumPriority(tagTqIDList, Len(tagTqIDList))
         base == [NoBatch EXCEPT !.queue = queue, !.tag = tag,
                                 !.tqs = tagTqIDList,
                                 !.probed = taskQueueDict,
                                 !.cached = queueSlots[queue],
                                 !.first = drawn.first,
                                 !.total = drawn.pilots,
                                 !.slots = totalSlots, !.jobs = tagTQJobs,
                                 !.waiting = tagWaitingPilots,
                                 !.prior = bucket.prior,
                                 !.budget = pilotsToSubmit]
     IN
     \E bundleOK \in BOOLEAN, submitOK \in BOOLEAN :
     \E chunk \in IF bundleOK /\ submitOK THEN SubmissionChunks(pilotsToSubmit)
                                         ELSE {pilotsToSubmit} :
       /\ calls' = [calls EXCEPT
                      !.bundle = @ \cup {queue},
                      !.submit = IF bundleOK THEN @ \cup {queue} ELSE @,
                      !.failed = IF bundleOK /\ ~submitOK THEN @ \cup {queue} ELSE @]
       /\ IF ~bundleOK
            THEN /\ Return("ERROR", "bundleError")
                 /\ batch' = base
                 /\ UNCHANGED <<failedQueues, queueSlots, track>>
          ELSE IF ~submitOK
            THEN /\ failedQueues' = [failedQueues EXCEPT ![queue] = CountFailure(@)]
                 /\ track' = [track EXCEPT ![queue].fails = @ + 1]
                 /\ batch' = [base EXCEPT !.processors = processors,
                                          !.built = TRUE,
                                          !.released = Unlinks(queueDict[queue].CEType),
                                          !.chunks = bucket.chunks,
                                          !.submitted = bucket.pilots]
                 /\ UNCHANGED <<queueSlots, matchedQueues, tqID>>
                 /\ IF BudgetAfterFailure(pilotsToSubmit) > 0
                      THEN /\ pc' = "submit" /\ event' = "submitError"
                           /\ pilotsToSubmit' = BudgetAfterFailure(pilotsToSubmit)
                           /\ UNCHANGED <<retval, queues, anySite, jobSites,
                                          testSites, siteMaskList, taskQueueDict,
                                          tagsLeft, tag, processors, tagTQJobs,
                                          tagWaitingPilots, totalSlots,
                                          queueSubmittedPilots, bucket,
                                          drawn>>
                      ELSE ContinueTag(tagsLeft, queueSubmittedPilots, 0,
                                       "submitError")
          ELSE
            \E n \in PilotLists(chunk) :
            \E draws \in [1..n -> DrawRange(sumPriority)] :
            \E okRefs \in AllBut(SeqToSet(AssignPilots(tagTqIDList, draws, tqID, 1))),
               okStatus \in AllBut(1..n) :
              LET assigned == AssignPilots(tagTqIDList, draws, tqID, 1)
                  left == BudgetAfterChunk(pilotsToSubmit, chunk)
              IN
              /\ queueSlots' = [queueSlots EXCEPT ![queue] = SlotsAfter(@, n)]
              /\ tqID' = IF n = 0 THEN tqID ELSE LastKey(SeqToSet(assigned))
              /\ batch' = [base EXCEPT
                             !.chunk = chunk, !.processors = processors,
                             !.built = TRUE,
                             !.released = Unlinks(queueDict[queue].CEType),
                             !.pilots = 1..n,
                             !.groups = Groups(assigned),
                             !.refTried = RefAttempts(Groups(assigned), okRefs),
                             !.statusTried =
                               StatusAttempts(Groups(assigned),
                                              RefAttempts(Groups(assigned), okRefs)
                                                \cap okRefs),
                             !.refs = {g \in Groups(assigned) :
                                         g[2] \in RefAttempts(Groups(assigned), okRefs)
                                                   \cap okRefs},
                             !.status =
                               okStatus \cap
                                 StatusAttempts(Groups(assigned),
                                                RefAttempts(Groups(assigned), okRefs)
                                                  \cap okRefs),
                             !.chunks = bucket.chunks + chunk,
                             !.submitted = bucket.pilots + n,
                             !.total = drawn.pilots + n]
              /\ UNCHANGED <<failedQueues, matchedQueues, track>>
              /\ IF left > 0
                   THEN /\ pc' = "submit" /\ event' = "submitOK"
                        /\ pilotsToSubmit' = left
                        /\ queueSubmittedPilots' = queueSubmittedPilots + chunk
                        /\ bucket' = [bucket EXCEPT !.chunks = @ + chunk,
                                                    !.pilots = @ + n]
                        /\ drawn' = [drawn EXCEPT !.pilots = @ + n]
                        /\ UNCHANGED <<retval, queues, anySite, jobSites,
                                       testSites, siteMaskList, taskQueueDict,
                                       tagsLeft, tag, processors, tagTQJobs,
                                       tagWaitingPilots, totalSlots>>
                   ELSE ContinueTag(tagsLeft, queueSubmittedPilots + chunk, n,
                                    "submitOK")
  /\ UNCHANGED <<cntVars, gqVars, cfgVars, cyclesLeft, probe>>

\* ------------------------------------------------------------------------
\* The agent: a catalog built by getQueues, then cycles of submitJobs.
\* ------------------------------------------------------------------------
FirstCandidate == Candidate("s1", "CREAM", "3600", "2", "True", FALSE, <<>>)
FirstCeDef == [MaxProcessors |-> "3", WholeNode |-> "false"]

\* The configurations of the agent the cycles are run under: the ceiling
\* of pilots per queue and cycle, the waiting-pilots flag, and the CPUTime
\* of the second queue.
Deployments == {<<1, TRUE, "3600">>, <<2, FALSE, NoValue>>}

InitCatalog(names) ==
  /\ \E d \in Deployments :
       /\ maxPilotsToSubmit = d[1]
       /\ pilotWaitingFlag = d[2]
       /\ candidates = [q \in names |->
                          IF q = "q1" THEN FirstCandidate
                          ELSE [SecondCandidate EXCEPT !.CPUTime = d[3]]]
  /\ resourceDict = [q \in names |-> IF q = "q1" THEN FirstCeDef ELSE SecondCeDef]
  /\ queueDict = [q \in names |-> TaggedParams(candidates[q], resourceDict[q])]
  /\ derived = [q \in names |->
                  [visited |-> TRUE,
                   tags |-> DerivedTags(candidates[q], resourceDict[q])]]
  /\ gqPc = "done" /\ gqTodo = {} /\ gqChanged = FALSE /\ gqResult = "OK"
  /\ failedQueueCycleFactor \in 1..MaxCycleFactor

\* One cycle of an agent that has been running: the failure counters hold
\* any value earlier cycles may have left.
Init ==
  /\ InitCatalog(Queues)
  /\ failedQueues \in [Queues -> 0..MaxFailed]
  /\ cyclesLeft = 1
  /\ matcher = ProbeResults
  /\ InitAgent
  /\ NoCounters

Next ==
  \/ StartCycle
  \/ GetSiteMask
  \/ NextQueue
  \/ NextTag
  \/ SubmitChunk
  \/ FinishCycle

Spec == Init /\ [][Next]_vars

\* The backoff of one queue over consecutive cycles, from a fresh agent.
InitBackoff ==
  /\ InitCatalog({"q1"})
  /\ failedQueues = [q \in Queues |-> 0]
  /\ cyclesLeft = MaxCycleFactor + 1
  /\ matcher = ProbeResults
  /\ InitAgent
  /\ NoCounters

SpecBackoff == InitBackoff /\ [][Next]_vars

\* One cycle in which the per-queue probes match, if anything, one task
\* queue that carries two of the queue's tags.
InitOverlap ==
  /\ InitCatalog(Queues)
  /\ failedQueues \in [Queues -> 0..MaxFailed]
  /\ cyclesLeft = 1
  /\ matcher = OverlapResults
  /\ InitAgent
  /\ NoCounters

SpecOverlap == InitOverlap /\ [][Next]_vars

\* ------------------------------------------------------------------------
\* export_getCurrentPilotCounters (WMSAdministratorHandler)
\* ------------------------------------------------------------------------
FINAL_STATES == {"Done", "Aborted", "Cleared", "Deleted", "Stalled"}

\* The statuses the pilot database reports here, and the largest count.
PilotStatuses == {"Running", "Done", "Aborted"}
MaxCount == 2

\* getCounters answers with a list of ( {'Status': s}, count ) pairs, one
\* per status that has pilots, in the order the database yields them.
StatusOrders ==
  {o \in UNION {[1..n -> PilotStatuses] : n \in 0..Cardinality(PilotStatuses)} :
     \A i, j \in DOMAIN o : i # j => o[i] # o[j]}

CounterList(order, count) ==
  [i \in DOMAIN order |-> <<[Status |-> order[i]], count[order[i]]>>]

\* A call about to be served: the pilots updated within the last day are
\* among all pilots, so the last-day list has no status and no count beyond
\* the overall list.
InitCounters ==
  /\ \E o \in StatusOrders, c \in [PilotStatuses -> 1..MaxCount] :
       /\ counters = CounterList(o, c)
       /\ \E oDay \in StatusOrders, cDay \in [PilotStatuses -> 1..MaxCount] :
            /\ SeqToSet(oDay) \subseteq SeqToSet(o)
            /\ \A st \in PilotStatuses : cDay[st] <= c[st]
            /\ countersDay = CounterList(oDay, cDay)
  /\ cntPc = "start" /\ cntLeft = <<>>
  /\ resultDict = <<>> /\ cntResult = "none"
  /\ candidates = [q \in Queues |-> SecondCandidate]
  /\ resourceDict = [q \in Queues |-> SecondCeDef]
  /\ queueDict = candidates
  /\ gqPc = "done" /\ gqTodo = {} /\ gqChanged = FALSE /\ gqResult = "none"
  /\ derived = [q \in Queues |-> [visited |-> FALSE, tags |-> <<>>]]
  /\ failedQueueCycleFactor = 1
  /\ maxPilotsToSubmit = 1
  /\ pilotWaitingFlag = TRUE
  /\ matcher = ProbeResults
  /\ failedQueues = [q \in Queues |-> 0]
  /\ cyclesLeft = 0
  /\ InitAgent

\* Lines 178-187: the two getCounters calls; a failed one is returned.
GetCountersBegin ==
  /\ cntPc = "start"
  /\ \E ok \in BOOLEAN, okDay \in BOOLEAN :
       IF ok /\ okDay
         THEN /\ cntPc' = "loop"
              /\ cntLeft' = counters
              /\ cntResult' = cntResult
         ELSE /\ cntPc' = "done"
              /\ cntResult' = "ERROR"
              /\ cntLeft' = cntLeft
  /\ resultDict' = <<>>
  /\ UNCHANGED <<counters, countersDay>>
  /\ UNCHANGED <<gqVars, cfgVars, agentVars, cycleVars, obsVars>>

\* Lines 192-196: the inner loop over the last-day list. Its break stands
\* at the level of the test, not inside it, so the loop ends after its
\* first entry whatever that entry is.
LastDayCount(status, day) ==
  IF day # <<>> /\ day[1][1].Status = status THEN day[1][2] ELSE 0

\* Lines 189-196: the entry of one status.
CounterOf(status, count, day) ==
  IF status \in FINAL_STATES THEN LastDayCount(status, day) ELSE count

\* Lines 188-196: one pass of the loop over result['Value'].
GetCountersStatus ==
  /\ cntPc = "loop"
  /\ cntLeft # <<>>
  /\ LET status == Head(cntLeft)[1].Status
         count == Head(cntLeft)[2]
     IN resultDict' = [st \in DOMAIN resultDict \cup {status} |->
                         IF st = status
                           THEN CounterOf(status, count, countersDay)
                           ELSE resultDict[st]]
  /\ cntLeft' = Tail(cntLeft)
  /\ UNCHANGED <<counters, countersDay, cntPc, cntResult>>
  /\ UNCHANGED <<gqVars, cfgVars, agentVars, cycleVars, obsVars>>

\* Line 198.
GetCountersEnd ==
  /\ cntPc = "loop"
  /\ cntLeft = <<>>
  /\ cntPc' = "done"
  /\ cntResult' = "OK"
  /\ UNCHANGED <<counters, countersDay, cntLeft, resultDict>>
  /\ UNCHANGED <<gqVars, cfgVars, agentVars, cycleVars, obsVars>>

NextCounters == GetCountersBegin \/ GetCountersStatus \/ GetCountersEnd

SpecCounters == InitCounters /\ [][NextCounters]_vars

\* ------------------------------------------------------------------------
\* Properties of submitJobs
\* ------------------------------------------------------------------------
\* What a step on a queue may have done (NextQueue, NextTag, SubmitChunk).
QueueEvents == {"gateSkip", "noWorkload", "notInMask", "noCPUTime",
                "platformError", "probeError", "probeEmpty", "noBucket",
                "matched"}
ProxyEvents == {"proxyError", "noSlots", "noBudget", "budget"}
BundleEvents == {"bundleError", "submitOK", "submitError"}
ErrorEvents == {"platformsError", "globalProbeError", "siteMaskError",
                "probeError", "proxyError", "bundleError"}
PassedGate == event \in QueueEvents \ {"gateSkip"}

\* The queues after the one the last step worked on are all still to visit.
RestPending ==
  IF pc = "queue" THEN queues = step.after
  ELSE pc \in {"tag", "submit"} /\ queues = <<step.queue>> \o step.after

BucketBound ==
  Min(batch.slots,
      Min(batch.jobs - batch.waiting, maxPilotsToSubmit - batch.prior))

\* C1: after every submit call of the submission loop of a tag bucket, the
\* pilots submitted to the bucket so far in the cycle (counted as chunks and
\* as returned identities) are at most min(slots available when the bucket
\* started, tagJobCount - tagWaitingPilots, maxPilotsToSubmit - pilots
\* submitted to the queue earlier in the cycle).
C1_BucketBound ==
  event \in {"submitOK", "submitError"} =>
    /\ batch.chunks <= BucketBound
    /\ batch.submitted <= BucketBound

\* The second call of a loop brings the bucket to its bound of two pilots.
C1_Witness ==
  /\ event = "submitOK" /\ batch.chunk = 1
  /\ batch.chunks = 2 /\ batch.submitted = 2 /\ BucketBound = 2

\* C2: a queue the per-queue loop reaches with failure counter c is skipped
\* by the backoff gate if and only if c mod failedQueueCycleFactor # 0, and
\* for a queue the gate skipped no per-queue probe, credential request,
\* bundle build or submit call is made in the cycle.
C2_BackoffGate ==
  /\ event \in QueueEvents =>
       ((event = "gateSkip") <=> (step.failed % failedQueueCycleFactor # 0))
  /\ event = "gateSkip" => step.queue \in calls.gate
  /\ calls.gate \cap (calls.probe \cup calls.proxy \cup calls.bundle
                        \cup calls.submit) = {}

\* One queue is skipped by the gate in a cycle that probes the other.
C2_Witness ==
  /\ event = "gateSkip" /\ step.failed % failedQueueCycleFactor # 0
  /\ calls.probe # {}

\* C3 as stated: after a cycle with a failed submit call of a queue whose
\* counter was a multiple of the cycle factor f, the gate skips the queue in
\* f consecutive cycles before it lets it pass again.
C3_Original ==
  (PassedGate /\ step.fails = 1) => step.skips = failedQueueCycleFactor

\* The cycles the gate holds a queue back after k failed submit calls.
SkippedAfter(k) ==
  (failedQueueCycleFactor - (k % failedQueueCycleFactor))
    % failedQueueCycleFactor

\* C3 amended: after a cycle with k >= 1 failed submit calls of a queue whose
\* counter was a multiple of f, the gate skips the queue in the next
\* (f - k mod f) mod f cycles whose loop reaches it, which is f - 1 cycles
\* after a single failure, and lets it pass in the one after.
C3_Backoff ==
  /\ (PassedGate /\ step.fails >= 1) => step.skips = SkippedAfter(step.fails)
  /\ (event = "gateSkip" /\ step.fails >= 1) =>
       step.skips < SkippedAfter(step.fails)

\* With f = 2 the queue passes the gate again after one skipped cycle.
C3_Witness ==
  /\ PassedGate /\ step.fails = 1 /\ step.skips = 1
  /\ failedQueueCycleFactor = 2

\* C4: a failed submit call records no pilot association and no pilot
\* status, adds exactly 1 to the failure counter of the queue, leaves the
\* bucket no budget (its loop ends), and does not abort the cycle: the
\* queues after this one are still to be visited.
C4_SubmitFailure ==
  event = "submitError" =>
    /\ batch.pilots = {} /\ batch.refs = {} /\ batch.status = {}
    /\ failedQueues[step.queue] = step.failed + 1
    /\ pilotsToSubmit = 0 /\ pc # "submit"
    /\ retval = "none" /\ pc \in {"tag", "queue"}
    /\ RestPending

\* A submit call failed in the first queue and the second one comes next.
C4_Witness ==
  /\ event = "submitError" /\ pc = "queue"
  /\ step.after # <<>> /\ queues = step.after

\* C5: once a submit call failed for a queue, no credential request, bundle
\* build or submit call is made for another tag bucket of that queue in the
\* same cycle.
C5_QueueSkippedAfterFailure ==
  ~(event \in ProxyEvents \cup BundleEvents /\ step.failedBefore)

\* C6 as stated: a failed per-queue probe or credential request adds 1 to
\* the failure counter of the queue, and no pilot is submitted to the queue
\* in the cycle.
C6_Original ==
  event \in {"probeError", "proxyError"} =>
    /\ failedQueues[step.queue] = step.failed + 1
    /\ step.queue \notin calls.submit

\* C6 amended: a failed per-queue probe or credential request makes
\* submitJobs return the error at once; the failure counter of the queue is
\* unchanged and no call is made for any queue in the rest of the cycle.
C6_ProbeOrProxyFailure ==
  event \in {"probeError", "proxyError"} =>
    /\ pc = "idle" /\ retval = "ERROR" /\ queues = <<>>
    /\ failedQueues[step.queue] = step.failed

\* The credential request fails for a queue that got pilots from an earlier
\* bucket of the cycle.
C6_Witness ==
  /\ event = "proxyError" /\ step.queue \in calls.submit
  /\ retval = "ERROR"

\* C7 as stated: a failure of a per-queue probe, of a credential request, of
\* a bundle build or of a submit call never makes the cycle return an error,
\* and the queues after it are still visited.
C7_Original ==
  event \in {"probeError", "proxyError", "bundleError", "submitError"} =>
    retval # "ERROR" /\ RestPending

\* C7 amended: submitJobs returns an error exactly when the platform lookup,
\* the global probe, the site-mask retrieval, a per-queue probe, a
\* credential request or a bundle build fails, and it then returns at once
\* without visiting the queues that are left; a failed submit call or a
\* failed platform lookup of one queue does not end the cycle, and the
\* queues after it are still visited.
C7_ErrorReturns ==
  /\ (pc = "idle" /\ retval = "ERROR") <=> event \in ErrorEvents
  /\ event \in ErrorEvents => queues = <<>>
  /\ event \in {"submitError", "platformError"} =>
       retval = "none" /\ RestPending

\* A bundle build fails in the first queue: the cycle returns the error
\* with the second queue unvisited.
C7_Witness ==
  /\ event = "bundleError" /\ retval = "ERROR" /\ pc = "idle"
  /\ step.after # <<>>
  /\ \A q \in SeqToSet(step.after) : q \notin calls.gate \cup calls.probe

\* C8: when the global probe or the site-mask retrieval fails, submitJobs
\* returns an error at once, and no per-queue probe, credential request,
\* bundle build or submit call is made in the cycle.
C8_FatalToCycle ==
  event \in {"globalProbeError", "siteMaskError"} =>
    /\ pc = "idle" /\ retval = "ERROR"
    /\ calls = NoCalls

\* The site mask cannot be read after the global probe found demand.
C8_Witness ==
  /\ event = "siteMaskError" /\ probe.ok /\ probe.value # {}
  /\ retval = "ERROR"

\* C9: when the global probe succeeds with no matching task queue,
\* submitJobs returns success without any per-queue probe, credential
\* request or submit call.
C9_NoDemand ==
  (probe.ok /\ probe.value = {}) =>
    /\ pc = "idle" /\ retval = "OK" /\ event = "noDemand"
    /\ calls = NoCalls

\* The global probe answered with an empty mapping.
C9_Witness ==
  /\ probe.ok /\ probe.value = {} /\ event = "noDemand" /\ retval = "OK"

\* ------------------------------------------------------------------------
\* Properties of getQueues
\* ------------------------------------------------------------------------
\* The processor tags by number, written out.
TagNames == <<"0Processors", "1Processors", "2Processors", "3Processors",
              "4Processors", "5Processors", "6Processors">>

\* The spellings of a true whole-node flag, in any case.
TrueSpellings == {"yes", "Yes", "YES", "true", "True", "TRUE"}

\* The operator's value when the queue has one, else the endpoint's.
EffectiveMaxProcessors(q) ==
  IF candidates[q].MaxProcessors # NoValue
    THEN candidates[q].MaxProcessors
    ELSE resourceDict[q].MaxProcessors

EffectiveWholeNode(q) ==
  IF candidates[q].WholeNode # NoValue THEN candidates[q].WholeNode
  ELSE IF resourceDict[q].WholeNode # NoValue THEN resourceDict[q].WholeNode
  ELSE "false"

\* C10: for every queue getQueues has processed, the tags it derived contain
\* 'NProcessors' exactly for 1 <= N <= the effective MaxProcessors (none when
\* there is no value), contain 'WholeNode' exactly when the effective
\* whole-node flag is 'yes' or 'true' in any case, and contain nothing else.
C10_DerivedTags ==
  \A q \in DOMAIN candidates :
    derived[q].visited =>
      LET tags == SeqToSet(derived[q].tags)
          top == IF EffectiveMaxProcessors(q) = NoValue THEN 0
                 ELSE IntOf(EffectiveMaxProcessors(q))
      IN  /\ \A n \in 0..(MaxProc + 1) :
               (TagNames[n + 1] \in tags) <=> (1 <= n /\ n <= top)
          /\ ("WholeNode" \in tags) <=> (EffectiveWholeNode(q) \in TrueSpellings)
          /\ tags \subseteq {TagNames[n + 1] : n \in 0..(MaxProc + 1)}
                              \cup {"WholeNode"}

\* The endpoint reports three processors and whole-node 'TRUE', the operator
\* sets neither: the queue gets the three processor tags and 'WholeNode'.
C10_Witness ==
  /\ gqPc = "done" /\ gqResult = "OK"
  /\ candidates["q1"].MaxProcessors = NoValue
  /\ candidates["q1"].WholeNode = NoValue
  /\ resourceDict["q1"].WholeNode = "TRUE"
  /\ derived["q1"].visited
  /\ derived["q1"].tags = <<"1Processors", "2Processors", "3Processors",
                            "WholeNode">>

DeclaresTrue(v) == v \in TrueSpellings

\* C11 as stated: getQueues adds 'WholeNode' to a queue whenever the
\* operator's value or the endpoint's value declares whole-node true, also
\* when the other of the two declares it false.
C11_Original ==
  \A q \in DOMAIN candidates :
    (/\ derived[q].visited
     /\ \/ DeclaresTrue(candidates[q].WholeNode)
        \/ DeclaresTrue(resourceDict[q].WholeNode))
      => "WholeNode" \in SeqToSet(derived[q].tags)

\* C11 amended: the operator's value overrides the endpoint's. getQueues adds
\* 'WholeNode' when the operator declares whole-node true, whatever the
\* endpoint declares, and when the operator declares nothing and the endpoint
\* declares it true; when the operator declares a value that is not true the
\* tag is not added, even if the endpoint declares whole-node true.
C11_OperatorOverrides ==
  \A q \in DOMAIN candidates :
    derived[q].visited =>
      LET added == "WholeNode" \in SeqToSet(derived[q].tags)
          operator == candidates[q].WholeNode
          endpoint == resourceDict[q].WholeNode
      IN  /\ DeclaresTrue(operator) => added
          /\ (operator # NoValue /\ ~DeclaresTrue(operator)) => ~added
          /\ (operator = NoValue /\ DeclaresTrue(endpoint)) => added
          /\ (operator = NoValue /\ ~DeclaresTrue(endpoint)) => ~added

\* The operator says 'No', the endpoint 'TRUE': no 'WholeNode' tag is added.
C11_Witness ==
  /\ derived["q1"].visited
  /\ candidates["q1"].WholeNode = "No"
  /\ resourceDict["q1"].WholeNode = "TRUE"
  /\ "WholeNode" \notin SeqToSet(derived["q1"].tags)

\* The tags of a candidate queue once getQueues has derived its tags.
TagsAfter(q) == SeqToSet(candidates[q].Tags) \cup SeqToSet(derived[q].tags)

\* C12: when the candidate enumeration succeeded, getQueues ends with
\* success and the catalog holds exactly the candidate queues whose tags
\* include '2Processors' or 'WholeNode': a queue with neither is removed
\* without an error, a queue with both is kept.
C12_CatalogFiltered ==
  (gqPc = "done" /\ gqResult # "ERROR") =>
    /\ gqResult = "OK"
    /\ DOMAIN queueDict =
         {q \in DOMAIN candidates :
            "2Processors" \in TagsAfter(q) \/ "WholeNode" \in TagsAfter(q)}

\* ------------------------------------------------------------------------
\* More properties of submitJobs
\* ------------------------------------------------------------------------
\* C13: in every cycle, no bundle is built and no submit call is made for a
\* queue whose site is neither in the site mask nor among the sites for
\* which the global probe reported demand of a restricted job type.
C13_SiteGate ==
  pc # "idle" =>
    \A q \in calls.bundle \cup calls.submit :
      queueDict[q].Site \in siteMaskList \cup testSites

\* Pilots go to a queue whose site is outside the mask and has test demand.
C13_Witness ==
  /\ event = "submitOK" /\ batch.pilots # {}
  /\ step.queue \in calls.submit
  /\ queueDict[step.queue].Site \notin siteMaskList
  /\ queueDict[step.queue].Site \in testSites
  /\ \E tq \in probe.value :
       /\ TaskQueues[tq].hasJobTypes /\ TaskQueues[tq].hasSites
       /\ queueDict[step.queue].Site \in TaskQueues[tq].Sites

\* The priority weight of a task queue and the running sum of the weights
\* of the first i task queues of a list.
Weight(tq) == TaskQueues[tq].Priority
Cumulative(list, i) == SumOver([j \in 1..i |-> Weight(list[j])], 1..i)
TotalWeight(list) == Cumulative(list, Len(list))

\* The draw values of [0, total weight) that select the task queue at
\* position i of the list, one value for each unit interval.
DrawsSelecting(list, i, previous) ==
  {r \in 0..(TotalWeight(list) - 1) : SelectTQ(list, r, previous) = list[i]}

\* C14: for a tag bucket whose task queues have a positive total priority
\* weight, a draw value r of [0, total) selects the first task queue whose
\* cumulative weight exceeds r, so the draw values that select a task queue
\* are as many as its own weight; a pilot of a successful submit call is
\* then assigned to a task queue of the bucket's list with positive weight.
C14_Allocator ==
  /\ pc = "submit" =>
       LET list == TagTqIDList(taskQueueDict,
                               ProcessorTagsOf(queueDict[Head(queues)].Tags),
                               tag)
       IN  TotalWeight(list) > 0 =>
             /\ \A i \in DOMAIN list :
                  Cardinality(DrawsSelecting(list, i, tqID)) = Weight(list[i])
             /\ \A r \in 0..(TotalWeight(list) - 1) :
                  \E i \in DOMAIN list :
                    /\ SelectTQ(list, r, tqID) = list[i]
                    /\ r < Cumulative(list, i)
                    /\ \A j \in 1..(i - 1) : r >= Cumulative(list, j)
  /\ (event = "submitOK" /\ TotalWeight(batch.tqs) > 0) =>
       \A ref \in batch.refs :
         ref[2] \in SeqToSet(batch.tqs) /\ Weight(ref[2]) > 0

\* A bucket with the weights 1 and 3: one draw value of four selects the
\* first task queue, three select the second, and the pilot of the first
\* chunk of the bucket went to the first task queue.
C14_Witness ==
  /\ event = "submitOK" /\ pc = "submit"
  /\ batch.tqs = <<1, 2>> /\ Weight(1) = 1 /\ Weight(2) = 3
  /\ DrawsSelecting(batch.tqs, 1, tqID) = {0}
  /\ DrawsSelecting(batch.tqs, 2, tqID) = {1, 2, 3}
  /\ batch.refs = {<<1, 1>>}

\* C15: when the total priority weight of the task queues of a tag bucket
\* is zero, no pilot is submitted for the bucket and no pilot is assigned to
\* a task queue.
C15_ZeroWeight ==
  (batch.tqs # <<>> /\ TotalWeight(batch.tqs) = 0) =>
    batch.pilots = {} /\ batch.refs = {}

BucketServed ==
  event = "submitOK" /\ pc # "submit" /\ batch.submitted = batch.chunks

\* C17: when every bundle build and submit call of a tag bucket succeeded
\* and each submit call returned as many pilot identities as its chunk,
\* the pilots submitted for the bucket are exactly
\* min(maxPilotsToSubmit - pilots submitted to the queue earlier in the
\* cycle, max(0, min(slots, tagJobCount - tagWaitingPilots))), tagJobCount
\* being the sum of the jobs of the task queues that carry the bucket's tag.
C17_ExactCount ==
  BucketServed =>
    /\ batch.jobs = SumOver([tq \in TQIds |-> TaskQueues[tq].Jobs],
                            SeqToSet(batch.tqs))
    /\ batch.submitted =
         Min(maxPilotsToSubmit - batch.prior,
             Max(0, Min(batch.slots, batch.jobs - batch.waiting)))

\* Task queues with three jobs, two slots, no waiting pilot and a ceiling of
\* two: two pilots in two chunks.
C17_Witness ==
  /\ BucketServed
  /\ batch.jobs = 3 /\ batch.slots = 2 /\ batch.waiting = 0
  /\ batch.submitted = 2 /\ batch.chunk = 1

\* C18: every submit call made for a tag bucket passes the processor count
\* of the bucket's tag: N for the tag 'NProcessors' and -1 for 'WholeNode'.
C18_ProcessorCount ==
  event \in {"submitOK", "submitError"} =>
    /\ batch.tag = "WholeNode" => batch.processors = -1
    /\ \A n \in 0..(MaxProc + 1) :
         batch.tag = TagNames[n + 1] => batch.processors = n
    /\ batch.tag \in {"WholeNode"} \cup {TagNames[n + 1] : n \in 0..(MaxProc + 1)}

\* A whole-node bucket with one slot: one pilot, submitted with -1.
C18_Witness ==
  /\ event = "submitOK" /\ batch.tag = "WholeNode"
  /\ batch.slots = 1 /\ batch.pilots = {1}
  /\ batch.processors = -1

\* C19: a queue whose per-queue probe succeeds with no task queue is left
\* out of the cycle: no credential request, bundle build or submit call is
\* made for it, its failure counter is unchanged, it is not counted as a
\* matched queue, and the cycle goes on with the queues after it.
C19_EmptyProbe ==
  event = "probeEmpty" =>
    /\ step.queue \in calls.probe
    /\ step.queue \notin calls.proxy \cup calls.bundle \cup calls.submit
    /\ failedQueues[step.queue] = step.failed
    /\ matchedQueues = step.matched
    /\ pc = "queue" /\ retval = "none" /\ queues = step.after

\* The first queue of the cycle matched, the probe of the second is empty.
C19_Witness ==
  /\ event = "probeEmpty" /\ step.matched = 1 /\ matchedQueues = 1
  /\ calls.probe = Queues

C21_QueueCeiling ==
  /\ queueSubmittedPilots <= maxPilotsToSubmit
  /\ drawn.pilots <= maxPilotsToSubmit
  /\ event = "submitOK" =>
       /\ batch.prior + batch.chunks <= maxPilotsToSubmit
       /\ batch.total <= maxPilotsToSubmit

\* The second bucket of a queue brings the queue to its ceiling of two.
C21_Witness ==
  /\ event = "submitOK" /\ maxPilotsToSubmit = 2
  /\ batch.prior = 1 /\ batch.chunks = 1
  /\ batch.total = 2 /\ batch.jobs - batch.waiting > 1

\* C22: the executable bundle built for a submit call is released right
\* after the call returns, whether the call succeeded or failed, unless the
\* endpoint type of the queue is 'HTCondorCE'; then the core never releases
\* it. No bundle exists, and none is released, when the build failed or in
\* any other step.
C22_BundleRelease ==
  /\ event \in {"submitOK", "submitError"} =>
       /\ batch.built
       /\ batch.released <=> queueDict[batch.queue].CEType # "HTCondorCE"
  /\ event \notin {"submitOK", "submitError"} =>
       ~batch.built /\ ~batch.released

\* The submit call of a CREAM queue failed and its bundle was released.
C22_Witness ==
  /\ event = "submitError" /\ batch.built /\ batch.released
  /\ queueDict[batch.queue].CEType = "CREAM"

\* A reference call or a status call of the batch failed.
RecordFailed ==
  event = "submitOK" /\ (batch.refs # batch.groups
                           \/ batch.status # batch.statusTried)

\* C23: when recording the association of a task-queue group or a status
\* update fails, the cycle is not aborted and the failure counter of the
\* queue and the remaining budget of the bucket are what they are without
\* the failure; the association of every group of the batch is still
\* attempted, and so is the status update of every pilot of the groups
\* whose association was recorded.
C23_RecordFailure ==
  RecordFailed =>
    /\ pc # "idle" /\ retval = "none"
    /\ failedQueues[batch.queue] = step.failed
    /\ IF batch.budget - batch.chunk > 0
         THEN pc = "submit" /\ pilotsToSubmit = batch.budget - batch.chunk
         ELSE pc \in {"tag", "queue"}
    /\ RestPending
    /\ batch.refTried = {g[2] : g \in batch.groups}
    /\ batch.statusTried = {g[1] : g \in batch.refs}
    /\ batch.status \subseteq batch.statusTried

\* Two groups: the association of task queue 1 fails, the one of task queue
\* 2 is still recorded and its pilot gets its status.
C23_Witness ==
  /\ RecordFailed
  /\ batch.groups = {<<1, 1>>, <<2, 2>>}
  /\ batch.refTried = {1, 2}
  /\ batch.refs = {<<2, 2>>} /\ batch.status = {2}

\* C25: the per-queue probe of a queue asks for the test-only job type
\* exactly when the queue's site is not in the site mask of the cycle; the
\* probe of a queue whose site is in the mask carries no job type. (The
\* site mask is a local of the cycle: it is compared while the cycle runs.)
C25_TestOnlyProbe ==
  /\ calls.test \subseteq calls.probe
  /\ pc # "idle" =>
       \A q \in calls.probe :
         q \in calls.test <=> queueDict[q].Site \notin siteMaskList

\* The probe of a queue whose site is outside the mask was just made with
\* the job type Test, and it matched task queues.
C25_Witness ==
  /\ event = "matched"
  /\ step.queue \in calls.test
  /\ queueDict[step.queue].Site \notin siteMaskList
  /\ queueDict[step.queue].Site \in testSites
  /\ siteMaskList # {}

\* C26: every association recorded after a successful submit call names a
\* task queue of the tag bucket the pilots were submitted for (a task queue
\* of the current queue's probe whose tags contain the bucket's tag),
\* whatever the priority weights, all-zero weights included.
C26_BucketAssociation ==
  event = "submitOK" =>
    \A ref \in batch.refs :
      /\ ref[2] \in SeqToSet(batch.tqs)
      /\ TaskQueues[ref[2]].hasTags
      /\ batch.tag \in TaskQueues[ref[2]].Tags

\* C27 as stated: every iteration of the submission loop of a tag bucket
\* returns, leaves the loop with the remaining budget at zero, or strictly
\* decreases the remaining budget, for every chunk size from 0 to the
\* remaining budget.
C27_Original ==
  event \in {"bundleError", "submitOK", "submitError"} =>
    \/ pc = "idle" /\ retval # "none"
    \/ pc \in {"tag", "queue"}
    \/ pc = "submit" /\ pilotsToSubmit < batch.budget

\* C27: an iteration whose bundle cannot be built returns the error; one
\* whose submit call fails leaves the loop; one whose submit call succeeds
\* lowers the remaining budget by the chunk and leaves the loop when
\* nothing remains. The budget strictly decreases when the chunk is at
\* least 1; after a chunk of 0 the loop runs again on the same budget.
C27_LoopProgress ==
  /\ event = "bundleError" => pc = "idle" /\ retval = "ERROR"
  /\ event = "submitError" => pc \in {"tag", "queue"}
  /\ event = "submitOK" =>
       /\ batch.chunk \in 0..batch.budget
       /\ IF batch.budget - batch.chunk > 0
            THEN pc = "submit" /\ pilotsToSubmit = batch.budget - batch.chunk
            ELSE pc \in {"tag", "queue"}
       /\ batch.chunk >= 1 =>
            pc \in {"tag", "queue"} \/ pilotsToSubmit < batch.budget
       /\ batch.chunk = 0 => pc = "submit" /\ pilotsToSubmit = batch.budget

\* A successful iteration with a chunk of 0, after a chunk of 1 for the
\* same queue: the loop is where it was, one pilot still to submit.
C27_Witness ==
  /\ event = "submitOK" /\ batch.chunk = 0
  /\ batch.budget = 1 /\ batch.prior + batch.chunks = 1
  /\ pc = "submit" /\ pilotsToSubmit = 1

\* C28: a status update to Submitted is issued only for the pilots of a
\* task-queue group whose association was recorded; when recording the
\* association of a group fails, no status update is issued for any pilot
\* of that group.
C28_StatusAfterAssociation ==
  /\ event = "submitOK" =>
       /\ \A p \in batch.statusTried : \E g \in batch.refs : g[1] = p
       /\ \A g \in batch.groups \ batch.refs :
            /\ g[2] \in batch.refTried
            /\ \A h \in batch.groups :
                 h[2] = g[2] => h[1] \notin batch.statusTried
       /\ batch.status \subseteq batch.statusTried
  /\ event # "submitOK" => batch.statusTried = {}

\* Two pilots in two groups: the association of pilot 2 failed, so only
\* pilot 1 got a status update.
C28_Witness ==
  /\ event = "submitOK"
  /\ batch.groups = {<<1, 2>>, <<2, 1>>}
  /\ batch.refs = {<<1, 2>>}
  /\ batch.statusTried = {1} /\ batch.status = {1}

\* What a step does to the failure counter of queue q: plus one when the
\* step is a failed submit call or a skip by the backoff gate of q, nothing
\* otherwise.
CounterStep(q) ==
  IF /\ pc \in {"queue", "tag", "submit"}
     /\ queues # <<>> /\ q = Head(queues)
     /\ event' \in {"gateSkip", "submitError"}
    THEN failedQueues'[q] = failedQueues[q] + 1
    ELSE failedQueues'[q] = failedQueues[q]

\* C29: the failure counter of a queue never decreases and changes in two
\* ways only: each failed submit call for the queue adds 1, and each cycle
\* in which the backoff gate skips the queue adds 1; no other step of a
\* cycle changes the counter of any queue.
C29_CounterChanges == [][\A q \in Queues : CounterStep(q)]_vars

\* Both ways in one cycle: one queue was skipped by the gate, and a submit
\* call for the other has just failed and raised its counter from 1 to 2.
C29_Witness ==
  /\ event = "submitError"
  /\ step.failed = 1 /\ failedQueues[step.queue] = 2
  /\ calls.gate # {} /\ step.queue \notin calls.gate

\* C30: with a cycle factor above 1, the first visit of a queue after a
\* cycle in which a submit call for it failed, once or for several tag
\* buckets, ends at the backoff gate.
C30_SkippedNextCycle ==
  (/\ event \in QueueEvents
   /\ failedQueueCycleFactor > 1
   /\ step.fails >= 1 /\ step.skips = 0) => event = "gateSkip"

\* The jobs of the task queues a per-queue probe returned.
ProbedJobs(value) == SumOver([tq \in TQIds |-> TaskQueues[tq].Jobs], value)

\* C31: the pilots submitted to a queue in one cycle, summed over its tag
\* buckets (counted as chunks and as returned identities), never exceed the
\* jobs of the task queues the queue's probe returned, also when one task
\* queue carries several of the queue's tags.
C31_NoOverSubmission ==
  event = "submitOK" =>
    /\ batch.prior + batch.chunks <= ProbedJobs(batch.probed)
    /\ batch.total <= ProbedJobs(batch.probed)

\* The steps that end a cycle before its loop over the queues.
EarlyEnds == {"platformsError", "globalProbeError", "noDemand",
              "siteMaskError"}

\* C32: a cycle whose global probe fails or reports no demand, or whose
\* site mask cannot be retrieved, ends before the loop over the queues, and
\* no step of a cycle before that loop changes the failure counter or the
\* cached slot count of any queue: a queue the gate holds back is as far
\* from passing it after such a cycle as before.
C32_EarlyEndFrame ==
  [][/\ pc \in {"idle", "mask"} =>
          /\ failedQueues' = failedQueues
          /\ queueSlots' = queueSlots
          /\ \A q \in Queues :
               BackoffGate(failedQueues'[q], failedQueueCycleFactor)
                 = BackoffGate(failedQueues[q], failedQueueCycleFactor)
     /\ (pc = "idle" /\ (~probe'.ok \/ probe'.value = {})) =>
          pc' = "idle" /\ event' \in EarlyEnds
     /\ event' \in EarlyEnds =>
          pc' = "idle" /\ calls' = NoCalls /\ retval' # "none"]_vars

\* A cycle found no demand while the gate holds q1 back after a failed
\* submit call and a slot count of q1 is cached.
C32_Witness ==
  /\ event = "noDemand" /\ pc = "idle" /\ retval = "OK"
  /\ failedQueueCycleFactor = 2 /\ failedQueues["q1"] = 1
  /\ queueSlots["q1"] > 0

\* ------------------------------------------------------------------------
\* Properties of export_getCurrentPilotCounters
\* ------------------------------------------------------------------------
\* The count the last-day list holds for a status, wherever it stands.
CountWithinDay(status) ==
  IF \E i \in DOMAIN countersDay : countersDay[i][1].Status = status
    THEN countersDay[CHOOSE i \in DOMAIN countersDay :
                       countersDay[i][1].Status = status][2]
    ELSE 0

\* C24: the returned dictionary holds, for every non-final status, the
\* overall count and, for every final status, the count of the last day
\* (0 when there is none), whatever the position of the status in the
\* last-day list.
C24_CurrentCounters ==
  cntResult = "OK" =>
    \A i \in DOMAIN counters :
      LET status == counters[i][1].Status
      IN /\ status \in DOMAIN resultDict
         /\ resultDict[status] = IF status \in FINAL_STATES
                                   THEN CountWithinDay(status)
                                   ELSE counters[i][2]

====
